---- MODULE Spec2Model ----
(***************************************************************************)
(* Model of the OmniScreen storage / history subsystem                     *)
(* (src/core/storage.py, class StorageManager).                            *)
(*                                                                         *)
(* Text is modelled as a sequence of one-character strings, so that        *)
(* pathlib's stem / suffix / parent, str.split, str.replace and SQLite's   *)
(* LIKE are computed character by character as the code computes them.     *)
(* The value <<"NULL">> (one element that is not a character) stands for   *)
(* Python's None and SQL's NULL.                                           *)
(***************************************************************************)
EXTENDS Integers, Sequences, FiniteSets, TLC

(***************************************************************************)
(* Bounds of the model                                                     *)
(***************************************************************************)
\* number of rows the catalog may ever be given (caps AUTOINCREMENT)
MaxId == 3

(***************************************************************************)
(* Program constants                                                       *)
(***************************************************************************)
\* safe_name.strip()[:50]
MaxWindowLen == 50
\* timedelta(days=1) in seconds
SecondsPerDay == 86400
\* default of get_history(limit=...)
DefaultLimit == 100

Null == <<"NULL">>

(***************************************************************************)
(* Text helpers                                                            *)
(***************************************************************************)
Digit(n) == CASE n = 0 -> "0" [] n = 1 -> "1" [] n = 2 -> "2" [] n = 3 -> "3"
              [] n = 4 -> "4" [] n = 5 -> "5" [] n = 6 -> "6" [] n = 7 -> "7"
              [] n = 8 -> "8" [] n = 9 -> "9"

RECURSIVE IntToStr(_)
\* f"{counter}" : decimal rendering of a non-negative integer
IntToStr(n) == IF n < 10 THEN <<Digit(n)>>
               ELSE IntToStr(n \div 10) \o <<Digit(n % 10)>>

\* strftime's zero-padded two-digit fields (%S, %d, %m ...)
TwoDigits(n) == <<Digit((n \div 10) % 10), Digit(n % 10)>>

\* str.rfind(c) + 1 : position of the last occurrence of c in s, 0 if none
LastIndexOf(s, c) ==
    IF \E i \in 1..Len(s) : s[i] = c
    THEN CHOOSE i \in 1..Len(s) : s[i] = c /\ \A j \in (i+1)..Len(s) : s[j] # c
    ELSE 0

\* s.startswith(p)
StartsWith(s, p) == Len(p) <= Len(s) /\ SubSeq(s, 1, Len(p)) = p

RECURSIVE Replace(_, _, _)
\* str.replace(old, new) : every non-overlapping occurrence, left to right
Replace(s, old, new) ==
    IF s = <<>> THEN <<>>
    ELSE IF StartsWith(s, old)
         THEN new \o Replace(SubSeq(s, Len(old) + 1, Len(s)), old, new)
         ELSE <<Head(s)>> \o Replace(Tail(s), old, new)

\* c.isalnum() for the characters of the model's alphabet
IsAlnum(c) == c \in {"a", "b", "x", "z", "A", "B", "X", "Z", "p", "n", "g", "t",
                     "s", "c", "r", "e", "u", "k", "o", "w",
                     "0", "1", "2", "3", "4", "5", "6", "7", "8", "9"}

\* str.strip() : leading and trailing blanks removed
RECURSIVE Strip(_)
Strip(s) == IF s = <<>> THEN s
            ELSE IF Head(s) = " " THEN Strip(Tail(s))
            ELSE IF s[Len(s)] = " " THEN Strip(SubSeq(s, 1, Len(s) - 1))
            ELSE s

\* s[:n]
Truncate(s, n) == IF Len(s) <= n THEN s ELSE SubSeq(s, 1, n)

(***************************************************************************)
(* pathlib.Path, kept as the text str(path) with "/" between components    *)
(***************************************************************************)
\* Path.name
PathName(p) == SubSeq(p, LastIndexOf(p, "/") + 1, Len(p))

\* Path.parent
PathParent(p) == SubSeq(p, 1, LastIndexOf(p, "/") - 1)

\* Path.suffix : from the last "." of the name, unless it leads or ends it
PathSuffix(p) ==
    LET name == PathName(p)
        i    == LastIndexOf(name, ".")
    IN  IF 1 < i /\ i < Len(name) THEN SubSeq(name, i, Len(name)) ELSE <<>>

\* Path.stem
PathStem(p) ==
    LET name == PathName(p)
        i    == LastIndexOf(name, ".")
    IN  IF 1 < i /\ i < Len(name) THEN SubSeq(name, 1, i - 1) ELSE name

\* parent / name
PathJoin(parent, name) == parent \o <<"/">> \o name

RECURSIVE Ancestors(_)
\* the directories mkdir(parents=True) makes sure exist, dir itself included
Ancestors(dir) == IF LastIndexOf(dir, "/") = 0 THEN {dir}
                  ELSE {dir} \cup Ancestors(PathParent(dir))

\* base_path / name : an empty name adds nothing, an absolute name replaces
PathDiv(parent, name) ==
    IF name = <<>> THEN parent
    ELSE IF name[1] = "/" THEN name
    ELSE PathJoin(parent, name)

(***************************************************************************)
(* Inputs                                                                  *)
(***************************************************************************)
\* window titles handed to save_screenshot; Null is "no window name"
Windows == { Null, <<"a", ".", "b">> }

\* PIL images: only the size is recorded
Images == { [width |-> 2, height |-> 1] }

\* capture modes passed by the callers
Modes == { "fullscreen" }

\* search terms given to get_history; Null is "no term"
Terms == { Null, <<"a", "_", "b">>, <<"A", ".", "B">>, <<"z">> }

\* limits given to get_history
Limits == { 1, DefaultLimit }

\* the instants (seconds of UTC) at which the clock is read: the start and
\* a day later
Instants == { 0, SecondsPerDay }

\* storage.save_location
BasePath == <<"r">>

(***************************************************************************)
(* State                                                                   *)
(***************************************************************************)
VARIABLES
    settings,   \* Config.settings, the keys the storage manager reads
    tz,         \* local time minus UTC, in seconds
    now,        \* the wall clock, seconds of UTC since the model's epoch
    files,      \* the screenshot tree: path -> image stored there
    dirs,       \* directories that exist under (and including) base_path
    catalog,    \* rows of table screenshots
    seq,        \* sqlite_sequence of table screenshots (AUTOINCREMENT)
    ret,        \* what the last call returned to its caller
    visible,     \* RegionSelector: the overlay is shown
    start_point, \* RegionSelector.start_point
    end_point,   \* RegionSelector.end_point
    rubber_band, \* RegionSelector.rubber_band: geometry and shown flag
    emitted,     \* the rectangles region_selected has emitted, in order
    buttons,     \* the mouse buttons held down over the overlay
    event        \* the event Qt delivered to the overlay last

\* the state of StorageManager and of RegionSelector
storageVars == <<settings, tz, now, files, dirs, catalog, seq, ret>>
selectorVars == <<visible, start_point, end_point, rubber_band, emitted, buttons,
                  event>>

VARIABLES
    cap_ret,      \* ScreenCapture: what the last capture call did and returned
    hotkeys,      \* HotkeyManager.hotkeys: key combination -> callback
    current_keys, \* HotkeyManager.current_keys
    is_running,   \* HotkeyManager.is_running
    listener,     \* HotkeyManager.listener is not None
    threads,      \* keyboard.Listener threads started and not stopped
    hk_event,     \* the last call or key event of the hotkey manager
    DEFAULT_CONFIG, \* Config.DEFAULT_CONFIG: the class's section dicts
    cfg_own,        \* section dicts that belong to Config.settings alone
    cfg_shared,     \* section -> settings[section] is DEFAULT_CONFIG[section]
    config_file,    \* config.json
    cfg_event,      \* the last call of Config
    saves,          \* save_screenshot calls under way: unit of work -> locals
    window_shown,   \* MainWindow is visible
    pending,        \* the modes whose single-shot timer is running
    clipboard,      \* the images on the system clipboard (at most one)
    win_event       \* the last call of MainWindow

\* the state of the capture engine
captureVars == <<cap_ret>>

\* the state of the hotkey manager
hotkeyVars == <<hotkeys, current_keys, is_running, listener, threads, hk_event>>

\* the state of the rest of the application
\* the state of the configuration
configVars == <<DEFAULT_CONFIG, cfg_own, cfg_shared, config_file, cfg_event>>

\* the state of the capture flow around the engine
\* the state of the main window
windowVars == <<window_shown, pending, clipboard, win_event>>

flowVars == <<configVars, saves, windowVars>>

appVars == <<captureVars, hotkeyVars, flowVars>>

vars == <<storageVars, selectorVars, appVars>>

\* datetime.now() : local wall clock
LocalNow == now + tz

(***************************************************************************)
(* Naming engine, path organizer, collision resolver                       *)
(***************************************************************************)
RECURSIVE strftime(_, _)
\* datetime.strftime(pattern) at local second t
strftime(pattern, t) ==
    IF pattern = <<>> THEN <<>>
    ELSE LET h == Head(pattern)
             x == CASE h = "%S" -> TwoDigits(t % 60)
                    [] h = "%d" -> TwoDigits(1 + (t \div SecondsPerDay))
                    [] h = "%D" -> <<"0", "1", "/">>
                                   \o TwoDigits(1 + (t \div SecondsPerDay))
                                   \o <<"/", "2", "6">>
                    [] OTHER    -> <<h>>
         IN  x \o strftime(Tail(pattern), t)

\* "".join(c for c in window_name if c.isalnum() or c in (' ', '-', '_'))
Sanitize(w) == SelectSeq(w, LAMBDA c : IsAlnum(c) \/ c \in {" ", "-", "_"})

\* StorageManager.generate_filename at local second t
generate_filename(window_name, t) ==
    LET dated     == strftime(settings.naming_pattern, t)
        safe_name == Truncate(Strip(Sanitize(window_name)), MaxWindowLen)
        named     == IF window_name # Null /\ window_name # <<>>
                     THEN Replace(dated, <<"{window}">>, safe_name)
                     ELSE Replace(dated, <<"{window}">>,
                                  <<"s", "c", "r", "e", "e", "n">>)
    IN  named \o <<".">> \o settings.format

\* datetime.now().strftime("%Y/%m/%d"), the epoch being 2026-01-01
DateDir(t) == <<"2", "0", "2", "6", "/", "0", "1", "/">>
              \o TwoDigits(1 + (t \div SecondsPerDay))

\* the directory get_save_path chooses (and creates) for filename
SaveDir(filename, t) ==
    IF settings.organize_by = "date"
    THEN PathDiv(BasePath, DateDir(t))
    ELSE IF settings.organize_by = "application"
    THEN LET i    == LastIndexOf(filename, "_")
             last == SubSeq(filename, i + 1, Len(filename))
             app  == IF i > 0
                     THEN Replace(Replace(last, <<".", "p", "n", "g">>, <<>>),
                                  <<".", "j", "p", "g">>, <<>>)
                     ELSE <<"u", "n", "k", "n", "o", "w", "n">>
         IN  PathDiv(BasePath, app)
    ELSE BasePath

\* StorageManager.get_save_path : the candidate path
get_save_path(filename, t) == PathDiv(SaveDir(filename, t), filename)

\* Path.exists() against a tree of files fs and directories ds
Exists(p, fs, ds) == p \in DOMAIN fs \/ p \in ds

\* original_filepath.parent / f"{stem}_{counter}{suffix}"
Suffixed(original, counter) ==
    PathDiv(PathParent(original),
            PathStem(original) \o <<"_">> \o IntToStr(counter)
                               \o PathSuffix(original))

RECURSIVE ResolveFrom_Chained(_, _, _, _)
\* variant: the suffix is added to the path tried last, not to the original
ResolveFrom_Chained(original, counter, fs, ds) ==
    IF Exists(Suffixed(original, counter), fs, ds)
    THEN ResolveFrom_Chained(Suffixed(original, counter), counter + 1, fs, ds)
    ELSE Suffixed(original, counter)

RECURSIVE ResolveFrom(_, _, _, _)
\* the body of "while filepath.exists()" from counter on
ResolveFrom(original, counter, fs, ds) ==
    IF Exists(Suffixed(original, counter), fs, ds)
    THEN ResolveFrom(original, counter + 1, fs, ds)
    ELSE Suffixed(original, counter)

\* variant: the candidate is used without looking at the disk
ResolveCollision_NoCheck(candidate, fs, ds) == candidate

\* the collision resolver of save_screenshot
ResolveCollision(candidate, fs, ds) ==
    IF Exists(candidate, fs, ds)
    THEN ResolveFrom(candidate, 1, fs, ds)
    ELSE candidate

(***************************************************************************)
(* History catalog                                                         *)
(***************************************************************************)
\* variant: INTEGER PRIMARY KEY without AUTOINCREMENT: largest rowid + 1
NewRow_MaxRowid(filename, filepath, window_name, capture_mode, image) ==
    [ id           |-> 1 + Cardinality({ i \in 1..seq : \E r \in catalog : r.id >= i }),
      filename     |-> filename,
      filepath     |-> filepath,
      window_name  |-> window_name,
      capture_mode |-> capture_mode,
      timestamp    |-> now,
      width        |-> image.width,
      height       |-> image.height,
      file_size    |-> image.width * image.height,
      tags         |-> Null,
      notes        |-> Null ]

\* the row INSERT builds: id from AUTOINCREMENT, timestamp CURRENT_TIMESTAMP
NewRow(filename, filepath, window_name, capture_mode, image) ==
    [ id           |-> seq + 1,
      filename     |-> filename,
      filepath     |-> filepath,
      window_name  |-> window_name,
      capture_mode |-> capture_mode,
      timestamp    |-> now,
      width        |-> image.width,
      height       |-> image.height,
      file_size    |-> image.width * image.height,
      tags         |-> Null,
      notes        |-> Null ]

\* filepath TEXT NOT NULL UNIQUE
UniqueViolation(cat, row) == \E r \in cat : r.filepath = row.filepath

\* variant: the filepath column is not UNIQUE
add_to_history_NoUnique(cat, row, dbFault) ==
    IF dbFault THEN <<cat, seq>> ELSE <<cat \cup {row}, row.id>>

\* variant: INSERT OR REPLACE
add_to_history_Replace(cat, row, dbFault) ==
    IF dbFault THEN <<cat, seq>>
    ELSE <<{ r \in cat : r.filepath # row.filepath } \cup {row}, row.id>>

\* StorageManager._add_to_history : <<catalog, sqlite_sequence>> afterwards.
\* dbFault is a failure of connect / execute / commit; it and the
\* IntegrityError of a duplicate filepath are both caught and logged.
add_to_history(cat, row, dbFault) ==
    IF dbFault THEN <<cat, seq>>
    ELSE IF UniqueViolation(cat, row) THEN <<cat, seq>>
    ELSE <<cat \cup {row}, row.id>>

Ret(op, raised, val) == [op |-> op, raised |-> raised, val |-> val]

\* StorageManager.save_screenshot(image, window_name, mode).
\* fault: "none"; "write" (image.save raises and leaves no file; the
\*        exception goes to the caller); "db" (the catalog cannot be written)
save_screenshot(image, window_name, mode, fault) ==
    LET filename  == generate_filename(window_name, LocalNow)
        candidate == get_save_path(filename, LocalNow)
        madeDirs  == dirs \cup Ancestors(PathParent(candidate))
        filepath  == ResolveCollision(candidate, files, madeDirs)
        row       == NewRow(PathName(filepath), filepath, window_name, mode, image)
        added     == add_to_history(catalog, row, fault = "db")
    IN  \* the model stops saving at MaxId rows or files
        /\ seq < MaxId
        /\ Cardinality(DOMAIN files) < MaxId
        /\ dirs' = madeDirs
        /\ IF fault = "write"
           THEN /\ ret' = Ret("save", TRUE, Null)
                /\ UNCHANGED <<files, catalog, seq>>
           ELSE /\ files' = [p \in DOMAIN files \cup {filepath} |->
                                IF p = filepath THEN image ELSE files[p]]
                /\ catalog' = added[1]
                /\ seq' = added[2]
                /\ ret' = Ret("save", FALSE, filepath)
        /\ UNCHANGED <<settings, tz, now>>

\* the units of work that call save_screenshot: the main flow and a thread
\* started by _on_press
Workers == {"main", "hotkey"}

\* save_screenshot up to the end of the duplicate-filename loop: the
\* filename, the directory made by get_save_path, the first free path
SaveResolve(t, image, window_name, mode) ==
    LET filename  == generate_filename(window_name, LocalNow)
        candidate == get_save_path(filename, LocalNow)
        madeDirs  == dirs \cup Ancestors(PathParent(candidate))
        filepath  == ResolveCollision(candidate, files, madeDirs)
    IN  /\ saves[t].pc = "idle"
        /\ seq < MaxId
        /\ Cardinality(DOMAIN files) < MaxId
        /\ dirs' = madeDirs
        /\ saves' = [saves EXCEPT ![t] =
                       [pc |-> "resolved", image |-> image,
                        window_name |-> window_name, mode |-> mode,
                        candidate |-> candidate, filepath |-> filepath]]
        /\ UNCHANGED <<settings, tz, now, files, catalog, seq, ret>>
        /\ UNCHANGED <<selectorVars, captureVars, hotkeyVars, configVars, windowVars>>

\* save_screenshot: image.save(filepath, ...)
SaveWrite(t) ==
    /\ saves[t].pc = "resolved"
    /\ files' = [p \in DOMAIN files \cup {saves[t].filepath} |->
                    IF p = saves[t].filepath THEN saves[t].image ELSE files[p]]
    /\ saves' = [saves EXCEPT ![t].pc = "written"]
    /\ UNCHANGED <<settings, tz, now, dirs, catalog, seq, ret>>
    /\ UNCHANGED <<selectorVars, captureVars, hotkeyVars, configVars, windowVars>>

\* save_screenshot: _add_to_history(...) and the return of the path
SaveInsert(t) ==
    LET w     == saves[t]
        row   == NewRow(PathName(w.filepath), w.filepath, w.window_name, w.mode,
                        w.image)
        added == add_to_history(catalog, row, FALSE)
    IN  /\ w.pc = "written"
        /\ catalog' = added[1]
        /\ seq' = added[2]
        /\ ret' = Ret("save", FALSE, w.filepath)
        /\ saves' = [saves EXCEPT ![t].pc = "done"]
        /\ UNCHANGED <<settings, tz, now, files, dirs>>
        /\ UNCHANGED <<selectorVars, captureVars, hotkeyVars, configVars, windowVars>>

\* ASCII lower case, as SQLite's LIKE folds it
Lower(c) == CASE c = "A" -> "a" [] c = "B" -> "b" [] c = "X" -> "x"
              [] c = "Z" -> "z" [] OTHER -> c

RECURSIVE Like(_, _)
\* SQLite's  s LIKE pat : "%" is any run of characters, "_" any one
\* character, every other character matches itself without regard to case;
\* there is no escape character
Like(pat, s) ==
    IF pat = <<>> THEN s = <<>>
    ELSE IF Head(pat) = "%"
         THEN Like(Tail(pat), s) \/ (s # <<>> /\ Like(pat, Tail(s)))
    ELSE IF Head(pat) = "_"
         THEN s # <<>> /\ Like(Tail(pat), Tail(s))
    ELSE /\ s # <<>>
         /\ Lower(Head(pat)) = Lower(Head(s))
         /\ Like(Tail(pat), Tail(s))

\* column LIKE ? ; NULL LIKE ? is not true
ColLike(col, pat) == col # Null /\ Like(pat, col)

\* the WHERE clause of get_history for f"%{search_term}%"
Matches(r, search_term) ==
    LET pat == <<"%">> \o search_term \o <<"%">>
    IN  \/ ColLike(r.filename, pat)
        \/ ColLike(r.window_name, pat)
        \/ ColLike(r.tags, pat)
        \/ ColLike(r.notes, pat)

\* the orders ORDER BY timestamp DESC may deliver rows in: rows of equal
\* timestamp come in an order SQL leaves open
OrderByTimestampDesc(rows) ==
    { s \in [1..Cardinality(rows) -> rows] :
        /\ \A i, j \in DOMAIN s : i # j => s[i] # s[j]
        /\ \A i, j \in DOMAIN s : i < j => s[i].timestamp >= s[j].timestamp }

\* LIMIT ? OFFSET ?
LimitOffset(s, limit, offset) ==
    SubSeq(s, offset + 1, IF offset + limit < Len(s) THEN offset + limit ELSE Len(s))

\* the rows the SELECT of get_history chooses from
Selected(cat, search_term) ==
    IF search_term # Null /\ search_term # <<>>
    THEN { r \in cat : Matches(r, search_term) }
    ELSE cat

\* StorageManager.get_history(limit, offset, search_term).
\* dbFault: connect or execute raises; the method then returns []
get_history(limit, offset, search_term, dbFault) ==
    /\ IF dbFault
       THEN ret' = Ret("list", FALSE, <<>>)
       ELSE \E s \in OrderByTimestampDesc(Selected(catalog, search_term)) :
               ret' = Ret("list", FALSE, LimitOffset(s, limit, offset))
    /\ UNCHANGED <<settings, tz, now, files, dirs, catalog, seq, selectorVars, appVars>>

\* variant: the file is left on disk
Unlink_Keep(fs, ps) == fs

\* the tree after unlink of every path of ps
Unlink(fs, ps) == [p \in DOMAIN fs \ ps |-> fs[p]]

\* variant: DELETE ... WHERE id <= ?
DeleteRow_UpTo(cat, id) == { r \in cat : r.id > id }

\* DELETE FROM screenshots WHERE id = ?
DeleteRow(cat, id) == { r \in cat : r.id # id }

\* StorageManager.delete_screenshot(screenshot_id).
\* fault: "none"; "connect" (connect or SELECT raises); "unlink" (the file
\*        exists and cannot be removed); "db" (DELETE or commit raises, the
\*        file being gone by then).  Every exception is caught: False.
delete_screenshot(screenshot_id, fault) ==
    LET rows == { r \in catalog : r.id = screenshot_id }
    IN  /\ IF fault = "connect"
           THEN /\ ret' = Ret("delete", FALSE, FALSE)
                /\ UNCHANGED <<files, catalog>>
           ELSE IF rows = {}
           THEN /\ fault = "none"
                /\ ret' = Ret("delete", FALSE, FALSE)
                /\ UNCHANGED <<files, catalog>>
           ELSE LET filepath == (CHOOSE r \in rows : TRUE).filepath
                IN  CASE fault = "unlink" ->
                           /\ filepath \in DOMAIN files
                           /\ ret' = Ret("delete", FALSE, FALSE)
                           /\ UNCHANGED <<files, catalog>>
                      [] fault = "db" ->
                           /\ files' = Unlink(files, {filepath})
                           /\ ret' = Ret("delete", FALSE, FALSE)
                           /\ UNCHANGED catalog
                      [] OTHER ->
                           /\ files' = Unlink(files, {filepath})
                           /\ catalog' = DeleteRow(catalog, screenshot_id)
                           /\ ret' = Ret("delete", FALSE, TRUE)
        /\ UNCHANGED <<settings, tz, now, dirs, seq, selectorVars, appVars>>

\* WHERE timestamp < ? : the column holds 'YYYY-MM-DD HH:MM:SS' (UTC), the
\* parameter is the local datetime as text, with a '.ffffff' tail when its
\* microsecond is not 0 (frac); the two are compared as text
OlderThan(timestamp, cutoffSec, frac) ==
    timestamp < cutoffSec \/ (timestamp = cutoffSec /\ frac)

\* the rows the SELECT of cleanup_old_screenshots finds
OldScreenshots(cat, cutoffSec, frac) ==
    { r \in cat : OlderThan(r.timestamp, cutoffSec, frac) }

\* variant: the sweep runs without reading auto_delete.enabled
cleanup_old_screenshots_AlwaysOn(frac, fault) ==
    LET cutoffSec == LocalNow - settings.days_to_keep * SecondsPerDay
        old       == OldScreenshots(catalog, cutoffSec, frac)
        present   == { r \in old : r.filepath \in DOMAIN files }
    IN  /\ fault = "none"
        /\ files' = Unlink(files, { r.filepath : r \in present })
        /\ catalog' = { r \in catalog : r \notin old }
        /\ ret' = Ret("sweep", FALSE, IntToStr(Cardinality(present)))
        /\ UNCHANGED <<settings, tz, now, dirs, seq, selectorVars, appVars>>

\* StorageManager.cleanup_old_screenshots().
\* frac: datetime.now() has a non-zero microsecond.
\* fault: "none"; "connect" (connect or SELECT raises); "unlink" (one
\*        unlink raises after the rows of `done` were handled); "db" (the
\*        commit raises).  Every exception is caught and logged; deletes
\*        that were not committed are rolled back with the connection.
\* ret.val is the count in the "Cleanup completed" log line, Null when the
\* sweep logs none.
cleanup_old_screenshots(frac, fault) ==
    LET cutoffSec == LocalNow - settings.days_to_keep * SecondsPerDay
        old       == OldScreenshots(catalog, cutoffSec, frac)
        present   == { r \in old : r.filepath \in DOMAIN files }
    IN  /\ IF ~settings.auto_delete
           THEN /\ fault = "none" /\ ~frac
                /\ ret' = Ret("sweep", FALSE, Null)
                /\ UNCHANGED <<files, catalog>>
           ELSE CASE fault = "connect" ->
                       /\ ret' = Ret("sweep", FALSE, Null)
                       /\ UNCHANGED <<files, catalog>>
                  [] fault = "unlink" ->
                       \E f \in present : \E done \in SUBSET (present \ {f}) :
                          /\ files' = Unlink(files, { r.filepath : r \in done })
                          /\ ret' = Ret("sweep", FALSE, Null)
                          /\ UNCHANGED catalog
                  [] fault = "db" ->
                       /\ files' = Unlink(files, { r.filepath : r \in present })
                       /\ ret' = Ret("sweep", FALSE, Null)
                       /\ UNCHANGED catalog
                  [] OTHER ->
                       /\ files' = Unlink(files, { r.filepath : r \in present })
                       /\ catalog' = { r \in catalog : r \notin old }
                       /\ ret' = Ret("sweep", FALSE, IntToStr(Cardinality(present)))
        /\ UNCHANGED <<settings, tz, now, dirs, seq, selectorVars, appVars>>

\* time passes: the clock is read again at a later instant
Tick ==
    /\ \E t \in Instants : t > now /\ now' = t
    /\ UNCHANGED <<settings, tz, files, dirs, catalog, seq, ret, selectorVars, appVars>>

(***************************************************************************)
(* Region selector (src/gui/region_selector.py)                            *)
(***************************************************************************)
\* pointer coordinates on the overlay; (0, 0) is its top-left pixel
Coords == {0, 10, 15, 50}

\* QMouseEvent.pos()
Points == Coords \X Coords

\* QMouseEvent.button()
Buttons == {"left", "right"}

\* QKeyEvent.key()
Keys == {"Escape", "Return"}

\* the side a selection has to exceed
MinSize == 5

\* start_point / end_point before the first press: None
NoPoint == << >>

\* a QRubberBand whose geometry was never set
NoRect == << >>

\* QPoint.__bool__ as "if self.start_point:" reads it: None is false, and
\* so is a QPoint that isNull(), i.e. QPoint(0, 0)
Truthy(p) == p # NoPoint /\ p # <<0, 0>>

\* QRect(QPoint topLeft, QPoint bottomRight): the corners x1, y1, x2, y2,
\* both inside the rectangle
QRect(p1, p2) == <<p1[1], p1[2], p2[1], p2[2]>>

\* QRect.normalized() of Qt 6: corners that are the wrong way round are
\* swapped and moved from non-inclusive to inclusive
normalized(r) ==
    LET bx == r[3] < r[1]
        by == r[4] < r[2]
    IN  << IF bx THEN r[3] + 1 ELSE r[1],
           IF by THEN r[4] + 1 ELSE r[2],
           IF bx THEN r[1] - 1 ELSE r[3],
           IF by THEN r[2] - 1 ELSE r[4] >>

\* QRect.x(), y(), width(), height()
RectX(r) == r[1]
RectY(r) == r[2]
RectWidth(r) == r[3] - r[1] + 1
RectHeight(r) == r[4] - r[2] + 1

\* QWidget.close() on the overlay: it is hidden
close == visible' = FALSE

\* RegionSelector.mousePressEvent
mousePressEvent(button, pos) ==
    /\ IF button = "left"
       THEN /\ start_point' = pos
            /\ end_point' = pos
            /\ rubber_band' = [geometry |-> QRect(pos, pos), shown |-> TRUE]
       ELSE UNCHANGED <<start_point, end_point, rubber_band>>
    /\ UNCHANGED <<visible, emitted, storageVars, appVars>>

\* RegionSelector.mouseMoveEvent
mouseMoveEvent(pos) ==
    /\ IF Truthy(start_point)
       THEN /\ end_point' = pos
            /\ rubber_band' = [rubber_band EXCEPT
                                 !.geometry = normalized(QRect(start_point, pos))]
       ELSE UNCHANGED <<end_point, rubber_band>>
    /\ UNCHANGED <<visible, start_point, emitted, storageVars, appVars>>

\* variant: the overlay stays open after the release
mouseReleaseEvent_StayOpen(button, pos) ==
    /\ IF button = "left" /\ Truthy(start_point)
       THEN LET rect == normalized(QRect(start_point, pos))
            IN  /\ end_point' = pos
                /\ emitted' =
                     IF RectWidth(rect) > MinSize /\ RectHeight(rect) > MinSize
                     THEN Append(emitted, <<RectX(rect), RectY(rect),
                                            RectWidth(rect), RectHeight(rect)>>)
                     ELSE emitted
                /\ UNCHANGED <<visible, start_point, rubber_band>>
       ELSE UNCHANGED <<visible, start_point, end_point, rubber_band, emitted>>
    /\ UNCHANGED <<storageVars, appVars>>

\* variant: every released selection is emitted, whatever its size
mouseReleaseEvent_NoThreshold(button, pos) ==
    /\ IF button = "left" /\ Truthy(start_point)
       THEN LET rect == normalized(QRect(start_point, pos))
            IN  /\ end_point' = pos
                /\ emitted' = Append(emitted, <<RectX(rect), RectY(rect),
                                                RectWidth(rect), RectHeight(rect)>>)
                /\ close
                /\ UNCHANGED <<start_point, rubber_band>>
       ELSE UNCHANGED <<visible, start_point, end_point, rubber_band, emitted>>
    /\ UNCHANGED <<storageVars, appVars>>

\* RegionSelector.mouseReleaseEvent; region_selected.emit(x, y, width,
\* height) appends to emitted
mouseReleaseEvent(button, pos) ==
    /\ IF button = "left" /\ Truthy(start_point)
       THEN LET rect == normalized(QRect(start_point, pos))
            IN  /\ end_point' = pos
                /\ emitted' =
                     IF RectWidth(rect) > MinSize /\ RectHeight(rect) > MinSize
                     THEN Append(emitted, <<RectX(rect), RectY(rect),
                                            RectWidth(rect), RectHeight(rect)>>)
                     ELSE emitted
                /\ close
                /\ UNCHANGED <<start_point, rubber_band>>
       ELSE UNCHANGED <<visible, start_point, end_point, rubber_band, emitted>>
    /\ UNCHANGED <<storageVars, appVars>>

\* variant: Escape is not handled
keyPressEvent_Ignore(key) ==
    UNCHANGED <<visible, start_point, end_point, rubber_band, emitted, storageVars, appVars>>

\* RegionSelector.keyPressEvent
keyPressEvent(key) ==
    /\ IF key = "Escape" THEN close ELSE UNCHANGED visible
    /\ UNCHANGED <<start_point, end_point, rubber_band, emitted, storageVars, appVars>>

\* a QMouseEvent or QKeyEvent: its type, its button() or key(), its pos()
Event(type, arg, pos) == [type |-> type, arg |-> arg, pos |-> pos]

\* Qt delivers pointer and key events to the overlay only while it is
\* shown; a move is delivered while a button is held (no mouse tracking)
PointerDown ==
    /\ visible
    /\ \E b \in Buttons \ buttons, p \in Points :
          /\ mousePressEvent(b, p)
          /\ buttons' = buttons \cup {b}
          /\ event' = Event("press", b, p)

PointerMove ==
    /\ visible
    /\ buttons # {}
    /\ \E p \in Points :
          /\ mouseMoveEvent(p)
          /\ event' = Event("move", "none", p)
    /\ UNCHANGED buttons

PointerUp ==
    /\ visible
    /\ \E b \in buttons, p \in Points :
          /\ mouseReleaseEvent(b, p)
          /\ buttons' = buttons \ {b}
          /\ event' = Event("release", b, p)

KeyDown ==
    /\ visible
    /\ \E k \in Keys :
          /\ keyPressEvent(k)
          /\ event' = Event("key", k, NoPoint)
    /\ UNCHANGED buttons

(***************************************************************************)
(* Capture engine (src/core/capture.py)                                    *)
(***************************************************************************)
\* CaptureMode
CaptureModes == {"fullscreen", "window", "region"}

\* values passed as x, y, width, height
Dims == {-1, 0, 1, 6}

\* the keyword arguments a caller may pass: any subset of x, y, width,
\* height, each with a value; an absent key is what kwargs.get reads as None
RegionKwargs ==
    UNION { [ks -> Dims] : ks \in SUBSET {"x", "y", "width", "height"} }

\* what a capture call did: the exception it raised ("none" if it
\* returned), whether sct.grab was called, the window name it returned
CapRet(op, args, raised, grabbed, window_name) ==
    [op |-> op, args |-> args, raised |-> raised, grabbed |-> grabbed,
     window_name |-> window_name]

\* variant: only negative sizes are refused
RegionInvalid_Negative(width, height) == width < 0 \/ height < 0

\* if width <= 0 or height <= 0
RegionInvalid(width, height) == width <= 0 \/ height <= 0

\* ScreenCapture.capture_region; grabFault: sct.grab raises
capture_region(x, y, width, height, grabFault) ==
    LET args == [k \in {"x", "y", "width", "height"} |->
                   CASE k = "x" -> x [] k = "y" -> y
                     [] k = "width" -> width [] OTHER -> height]
    IN  IF RegionInvalid(width, height)
        THEN CapRet("capture_region", args, "ValueError", FALSE, Null)
        ELSE IF grabFault
        THEN CapRet("capture_region", args, "ScreenShotError", TRUE, Null)
        ELSE CapRet("capture_region", args, "none", TRUE, Null)

\* if None in (x, y, width, height)
MissingRegionArg(kwargs) == DOMAIN kwargs # {"x", "y", "width", "height"}

\* ScreenCapture.capture(mode, **kwargs); window: the title of the active
\* window, Null when it cannot be read (capture_window falls back to the
\* full screen)
capture(mode, kwargs, window, grabFault) ==
    LET fail == IF grabFault THEN "ScreenShotError" ELSE "none"
    IN  CASE mode = "fullscreen" ->
               CapRet("capture", kwargs, fail, TRUE, Null)
          [] mode = "window" ->
               CapRet("capture", kwargs, fail, TRUE, window)
          [] OTHER ->
               IF MissingRegionArg(kwargs)
               THEN CapRet("capture", kwargs, "ValueError", FALSE, Null)
               ELSE [capture_region(kwargs["x"], kwargs["y"], kwargs["width"],
                                    kwargs["height"], grabFault)
                       EXCEPT !.op = "capture"]

\* a caller captures a region directly
CaptureRegion ==
    /\ \E x, y, w, h \in Dims, grabFault \in BOOLEAN :
          cap_ret' = capture_region(x, y, w, h, grabFault)
    /\ UNCHANGED <<storageVars, selectorVars, hotkeyVars, flowVars>>

\* a caller captures through the dispatch with mode REGION
CaptureDispatch ==
    /\ \E kwargs \in RegionKwargs, grabFault \in BOOLEAN :
          cap_ret' = capture("region", kwargs, Null, grabFault)
    /\ UNCHANGED <<storageVars, selectorVars, hotkeyVars, flowVars>>

\* ScreenCapture.__init__
InitCapture == cap_ret = CapRet("init", << >>, "none", FALSE, Null)

(***************************************************************************)
(* Hotkey manager (src/core/hotkey.py)                                     *)
(***************************************************************************)
\* str.lower() on the letters hotkey strings are written with
LowerChar(c) == CASE c = "C" -> "c" [] c = "S" -> "s" [] c = "T" -> "t"
                  [] c = "R" -> "r" [] c = "L" -> "l" [] c = "F" -> "f"
                  [] OTHER -> c

LowerStr(s) == [i \in 1..Len(s) |-> LowerChar(s[i])]

\* str.find(c) + 1 : position of the first occurrence of c in s, 0 if none
IndexOf(s, c) ==
    IF \E i \in 1..Len(s) : s[i] = c
    THEN CHOOSE i \in 1..Len(s) : s[i] = c /\ \A j \in 1..(i-1) : s[j] # c
    ELSE 0

RECURSIVE Split(_, _)
\* str.split(sep) for a one-character separator
Split(s, sep) ==
    LET i == IndexOf(s, sep)
    IN  IF i = 0 THEN <<s>>
        ELSE <<SubSeq(s, 1, i - 1)>> \o Split(SubSeq(s, i + 1, Len(s)), sep)

\* c.isdigit()
IsDigit(c) == c \in {"0", "1", "2", "3", "4", "5", "6", "7", "8", "9"}

DigitValue(c) == CHOOSE n \in 0..9 : Digit(n) = c

RECURSIVE StrToInt(_)
\* int(s) for a run of digits
StrToInt(s) == IF s = <<>> THEN 0
               ELSE 10 * StrToInt(SubSeq(s, 1, Len(s) - 1)) + DigitValue(s[Len(s)])

RECURSIVE Concat(_)
\* the characters of s as one string
Concat(s) == IF s = <<>> THEN "" ELSE Head(s) \o Concat(Tail(s))

\* getattr(keyboard.Key, f"f{f_num}")
FunctionKey(f_num) == "Key.f" \o Concat(IntToStr(f_num))

\* the names parse_hotkey_string maps to keyboard.Key members
key_map ==
    <<"c", "t", "r", "l">> :> "Key.ctrl" @@
    <<"c", "o", "n", "t", "r", "o", "l">> :> "Key.ctrl" @@
    <<"s", "h", "i", "f", "t">> :> "Key.shift" @@
    <<"a", "l", "t">> :> "Key.alt" @@
    <<"c", "m", "d">> :> "Key.cmd" @@
    <<"c", "o", "m", "m", "a", "n", "d">> :> "Key.cmd" @@
    <<"s", "u", "p", "e", "r">> :> "Key.cmd" @@
    <<"w", "i", "n">> :> "Key.cmd" @@
    <<"w", "i", "n", "d", "o", "w", "s">> :> "Key.cmd" @@
    <<"t", "a", "b">> :> "Key.tab" @@
    <<"e", "n", "t", "e", "r">> :> "Key.enter" @@
    <<"r", "e", "t", "u", "r", "n">> :> "Key.enter" @@
    <<"e", "s", "c">> :> "Key.esc" @@
    <<"e", "s", "c", "a", "p", "e">> :> "Key.esc" @@
    <<"s", "p", "a", "c", "e">> :> "Key.space" @@
    <<"b", "a", "c", "k", "s", "p", "a", "c", "e">> :> "Key.backspace" @@
    <<"d", "e", "l", "e", "t", "e">> :> "Key.delete" @@
    <<"u", "p">> :> "Key.up" @@
    <<"d", "o", "w", "n">> :> "Key.down" @@
    <<"l", "e", "f", "t">> :> "Key.left" @@
    <<"r", "i", "g", "h", "t">> :> "Key.right"
\* the keys one part of a hotkey string stands for: a function key, a named
\* key, a single character, or nothing (unknown part, logged and skipped)
ParsePart(raw) ==
    LET part  == Strip(raw)
        isF   == /\ StartsWith(part, <<"f">>)
                 /\ Len(part) > 1
                 /\ \A i \in 2..Len(part) : IsDigit(part[i])
        f_num == StrToInt(Tail(part))
    IN  IF isF /\ 1 <= f_num /\ f_num <= 12 THEN {FunctionKey(f_num)}
        ELSE IF part \in DOMAIN key_map THEN {key_map[part]}
        ELSE IF Len(part) = 1 THEN {part[1]}
        ELSE {}

\* HotkeyManager.parse_hotkey_string
parse_hotkey_string(hotkey_str) ==
    LET parts == Split(LowerStr(hotkey_str), "+")
    IN  UNION { ParsePart(parts[i]) : i \in 1..Len(parts) }

\* what the last call or key event of the manager did: its argument, what
\* it returned ("raised" for an exception), the callbacks it started in a
\* thread, the callback it was given, and the table and held keys it found
HkEvent(op, arg, r, fired) ==
    [op |-> op, arg |-> arg, ret |-> r, fired |-> fired, cb |-> "none",
     before |-> hotkeys, held |-> current_keys]

\* the callbacks _setup_hotkeys binds
Callbacks == {"quick", "region"}

\* hotkey strings as configured or typed
HotkeyStrings ==
    { <<"c", "t", "r", "l", "+", "s">>,
      <<"C", "t", "r", "l", " ", "+", " ", "S">>,
      <<"c", "o", "n", "t", "r", "o", "l", "+", "s">>,
      <<"s">>,
      <<"F", "1">>,
      <<"f", "1", "3">>,
      <<"c", "t", "r", "l", "+", "f", "o", "o">> }

\* the hotkey strings the configuration holds
ConfiguredHotkeys ==
    { <<"c", "t", "r", "l", "+", "s">>, <<"s">>, <<"s", "h", "i", "f", "t", "+", "s">> }

\* the keys the listener reports: keyboard.Key members and KeyCode chars
DeliveredKeys == {"Key.ctrl", "Key.shift", "s", "S", "t"}

\* variant: setdefault, an existing binding is kept
SetItem_KeepFirst(table, keys, callback) ==
    [c \in DOMAIN table \cup {keys} |->
        IF c \in DOMAIN table THEN table[c] ELSE callback]

\* self.hotkeys[keys] = callback
SetItem(table, keys, callback) ==
    [c \in DOMAIN table \cup {keys} |-> IF c = keys THEN callback ELSE table[c]]

\* del self.hotkeys[keys]
DelItem(table, keys) == [c \in DOMAIN table \ {keys} |-> table[c]]

\* HotkeyManager.register_hotkey
register_hotkey(hotkey_str, callback) ==
    /\ hotkeys' = SetItem(hotkeys, parse_hotkey_string(hotkey_str), callback)
    /\ hk_event' = [HkEvent("register", hotkey_str, "True", {})
                        EXCEPT !.cb = callback]
    /\ UNCHANGED <<current_keys, is_running, listener, threads>>
    /\ UNCHANGED <<storageVars, selectorVars, captureVars, flowVars>>

\* HotkeyManager.unregister_hotkey
unregister_hotkey(hotkey_str) ==
    LET keys == parse_hotkey_string(hotkey_str)
    IN  /\ IF keys \in DOMAIN hotkeys
           THEN /\ hotkeys' = DelItem(hotkeys, keys)
                /\ hk_event' = HkEvent("unregister", hotkey_str, "True", {})
           ELSE /\ hotkeys' = hotkeys
                /\ hk_event' = HkEvent("unregister", hotkey_str, "False", {})
        /\ UNCHANGED <<current_keys, is_running, listener, threads>>
        /\ UNCHANGED <<storageVars, selectorVars, captureVars, flowVars>>

\* HotkeyManager._normalize_key: a KeyCode with a char becomes the KeyCode
\* of the lower-case char, a keyboard.Key stays as it is
normalize_key(key) == IF key = "S" THEN "s" ELSE key

\* variant: a hotkey fires when its keys are among the held ones
Triggered_Subset(table, current_combo) ==
    { table[c] : c \in { d \in DOMAIN table : d \subseteq current_combo } }

\* the callbacks whose combination equals the held keys
Triggered(table, current_combo) ==
    { table[c] : c \in { d \in DOMAIN table : d = current_combo } }

\* HotkeyManager._on_press
on_press(key) ==
    LET held == current_keys \cup {normalize_key(key)}
    IN  /\ current_keys' = held
        /\ hk_event' = HkEvent("press", key, "None", Triggered(hotkeys, held))
        /\ UNCHANGED <<hotkeys, is_running, listener, threads>>
        /\ UNCHANGED <<storageVars, selectorVars, captureVars, flowVars>>

\* HotkeyManager._on_release
on_release(key) ==
    /\ current_keys' = current_keys \ {normalize_key(key)}
    /\ hk_event' = HkEvent("release", key, "None", {})
    /\ UNCHANGED <<hotkeys, is_running, listener, threads>>
    /\ UNCHANGED <<storageVars, selectorVars, captureVars, flowVars>>

\* HotkeyManager.stop; fault: listener.stop() raises, which is caught and
\* logged
stop(fault) ==
    /\ IF ~is_running
       THEN /\ ~fault
            /\ hk_event' = HkEvent("stop", "idle", "None", {})
            /\ UNCHANGED <<is_running, listener, threads, current_keys>>
       ELSE IF fault /\ listener
       THEN /\ hk_event' = HkEvent("stop", "running", "caught", {})
            /\ UNCHANGED <<is_running, listener, threads, current_keys>>
       ELSE /\ ~fault
            /\ listener' = FALSE
            /\ threads' = IF listener THEN threads - 1 ELSE threads
            /\ is_running' = FALSE
            /\ current_keys' = {}
            /\ hk_event' = HkEvent("stop", "running", "None", {})
    /\ UNCHANGED hotkeys
    /\ UNCHANGED <<storageVars, selectorVars, captureVars, flowVars>>

\* variant: start without the is_running guard
start_NoGuard(fault) ==
    /\ listener' = TRUE
    /\ threads' = threads + 1
    /\ is_running' = TRUE
    /\ hk_event' = HkEvent("start", IF is_running THEN "running" ELSE "idle",
                           "None", {})
    /\ UNCHANGED <<hotkeys, current_keys>>
    /\ UNCHANGED <<storageVars, selectorVars, captureVars, flowVars>>

\* HotkeyManager.start; fault: "create" (keyboard.Listener() raises),
\* "start" (listener.start() raises); both are logged and raised again
start(fault) ==
    /\ IF is_running
       THEN /\ fault = "none"
            /\ hk_event' = HkEvent("start", "running", "None", {})
            /\ UNCHANGED <<is_running, listener, threads>>
       ELSE CASE fault = "create" ->
                   /\ hk_event' = HkEvent("start", "idle", "raised", {})
                   /\ UNCHANGED <<is_running, listener, threads>>
              [] fault = "start" ->
                   /\ listener' = TRUE
                   /\ hk_event' = HkEvent("start", "idle", "raised", {})
                   /\ UNCHANGED <<is_running, threads>>
              [] OTHER ->
                   /\ listener' = TRUE
                   /\ threads' = threads + 1
                   /\ is_running' = TRUE
                   /\ hk_event' = HkEvent("start", "idle", "None", {})
    /\ UNCHANGED <<hotkeys, current_keys>>
    /\ UNCHANGED <<storageVars, selectorVars, captureVars, flowVars>>

\* a hotkey string is bound to a callback, any string
Register == \E h \in HotkeyStrings, cb \in Callbacks : register_hotkey(h, cb)

Unregister == \E h \in HotkeyStrings : unregister_hotkey(h)

\* _setup_hotkeys binds a configured string
RegisterConfigured ==
    \E h \in ConfiguredHotkeys, cb \in Callbacks : register_hotkey(h, cb)

Start == \E fault \in {"none", "create", "start"} : start(fault)

Stop == \E fault \in BOOLEAN : stop(fault)

\* a running listener thread reports key events
KeyPress == threads > 0 /\ \E k \in DeliveredKeys : on_press(k)

KeyRelease == threads > 0 /\ \E k \in DeliveredKeys : on_release(k)

\* HotkeyManager.__init__
InitHotkey ==
    /\ hotkeys = << >>
    /\ current_keys = {}
    /\ is_running = FALSE
    /\ listener = FALSE
    /\ threads = 0
    /\ hk_event = [op |-> "init", arg |-> "none", ret |-> "None", fired |-> {},
                   cb |-> "none", before |-> << >>, held |-> {}]

\* Config.DEFAULT_CONFIG as written in the class body: the sections and
\* keys the capture flow and the storage location use
OriginalDefaults ==
    [storage   |-> [save_location |-> "", format |-> "png"],
     clipboard |-> [copy_on_capture |-> FALSE, save_and_copy |-> TRUE]]

\* values the settings dialog and the command line pass to set
SettingValues ==
    [storage   |-> [save_location |-> {"", "/shots"}, format |-> {"png", "jpg"}],
     clipboard |-> [copy_on_capture |-> BOOLEAN, save_and_copy |-> BOOLEAN]]

\* config.json as _load_config may find it: absent, not JSON, or an object
\* holding some sections with some of their keys
ConfigFiles ==
    << [state |-> "absent", content |-> << >>],
       [state |-> "unreadable", content |-> << >>],
       [state |-> "json", content |-> << >>],
       [state |-> "json", content |-> [storage |-> [format |-> "jpg"]]],
       [state |-> "json",
        content |-> [storage   |-> [save_location |-> "/shots", format |-> "png"],
                     clipboard |-> [copy_on_capture |-> TRUE]]] >>

\* Config._merge_configs on one section: a copy of the default section with
\* the loaded keys written over it
merge_configs(default, loaded) ==
    [k \in DOMAIN default |-> IF k \in DOMAIN loaded THEN loaded[k] ELSE default[k]]

\* the dict self.settings[section] refers to
Section(sec) == IF cfg_shared[sec] THEN DEFAULT_CONFIG[sec] ELSE cfg_own[sec]

\* Config.get(section, key)
get(sec, key) == Section(sec)[key]

\* settings[section][key] = value, in the dict settings[section] refers to
SetKey(sec, key, value) ==
    IF cfg_shared[sec]
    THEN /\ DEFAULT_CONFIG' = [DEFAULT_CONFIG EXCEPT ![sec][key] = value]
         /\ UNCHANGED cfg_own
    ELSE /\ cfg_own' = [cfg_own EXCEPT ![sec][key] = value]
         /\ UNCHANGED DEFAULT_CONFIG

\* Config.save: the settings as they are after the call's assignment are
\* dumped to config.json; fault: the file cannot be opened, which is printed
save(fault) ==
    config_file' =
        IF fault THEN config_file
        ELSE [state |-> "json",
              content |-> [sec \in DOMAIN OriginalDefaults |->
                             IF cfg_shared'[sec] THEN DEFAULT_CONFIG'[sec]
                             ELSE cfg_own'[sec]]]

\* Config.set(section, key, value=value)
set(sec, key, value, fault) ==
    /\ SetKey(sec, key, value)
    /\ UNCHANGED cfg_shared
    /\ save(fault)
    /\ cfg_event' = [op |-> "set", sec |-> sec, key |-> key]
    /\ UNCHANGED <<storageVars, selectorVars, captureVars, hotkeyVars, saves, windowVars>>

\* Config.reset_to_defaults: settings becomes a shallow copy of
\* DEFAULT_CONFIG, whose section dicts are the class's own
reset_to_defaults(fault) ==
    /\ cfg_shared' = [sec \in DOMAIN OriginalDefaults |-> TRUE]
    /\ cfg_own' = OriginalDefaults
    /\ UNCHANGED DEFAULT_CONFIG
    /\ save(fault)
    /\ cfg_event' = [op |-> "reset", sec |-> "", key |-> ""]
    /\ UNCHANGED <<storageVars, selectorVars, captureVars, hotkeyVars, saves, windowVars>>

Set == \E sec \in DOMAIN SettingValues :
         \E key \in DOMAIN SettingValues[sec] :
           \E value \in SettingValues[sec][key], fault \in BOOLEAN :
             set(sec, key, value, fault)

ResetToDefaults == \E fault \in BOOLEAN : reset_to_defaults(fault)

\* Config.__init__: _load_config, then the default save location written
\* into settings["storage"] when it is empty
InitConfig(file) ==
      LET own     == [sec \in DOMAIN OriginalDefaults |-> sec \in DOMAIN file.content]
          merged  == [sec \in DOMAIN OriginalDefaults |->
                        IF own[sec]
                        THEN merge_configs(OriginalDefaults[sec], file.content[sec])
                        ELSE OriginalDefaults[sec]]
          unset   == merged.storage.save_location = ""
          located == [merged EXCEPT !.storage.save_location = "/home/Pictures/OmniScreen"]
      IN  /\ cfg_shared = [sec \in DOMAIN OriginalDefaults |-> ~own[sec]]
          /\ cfg_own = IF unset /\ own.storage THEN located ELSE merged
          /\ DEFAULT_CONFIG = IF unset /\ ~own.storage
                              THEN [OriginalDefaults EXCEPT
                                      !.storage.save_location = "/home/Pictures/OmniScreen"]
                              ELSE OriginalDefaults
          /\ config_file = IF file.state = "absent"
                           THEN [state |-> "unreadable", content |-> << >>]
                           ELSE file
          /\ cfg_event = [op |-> "init", sec |-> "", key |-> ""]

(***************************************************************************)
(* Capture flow of the main window (src/gui/main_window.py)                *)
(***************************************************************************)
\* variant: the capture is saved only when save_and_copy is on
should_save_OnlyWithCopy(copy_on_capture, save_and_copy) == save_and_copy

\* should_save = not copy_on_capture or save_and_copy
should_save(copy_on_capture, save_and_copy) == ~copy_on_capture \/ save_and_copy

\* MainWindow.initiate_capture: REGION opens a new overlay; any other mode
\* hides the window and starts the single-shot timer that requests the
\* capture (timers of one mode are not told apart)
initiate_capture(mode) ==
    /\ IF mode = "region"
       THEN /\ visible' = TRUE
            /\ start_point' = NoPoint
            /\ end_point' = NoPoint
            /\ rubber_band' = [geometry |-> NoRect, shown |-> FALSE]
            /\ emitted' = << >>
            /\ buttons' = {}
            /\ event' = Event("show", "none", NoPoint)
            /\ UNCHANGED <<window_shown, pending>>
       ELSE /\ window_shown' = FALSE
            /\ pending' = pending \cup {mode}
            /\ UNCHANGED selectorVars
    /\ win_event' = [op |-> "initiate_capture", mode |-> mode, raised |-> "none",
                     copy_on_capture |-> FALSE, save_and_copy |-> FALSE,
                     saved |-> FALSE, copy_attempted |-> FALSE]
    /\ UNCHANGED <<storageVars, captureVars, hotkeyVars, configVars, saves, clipboard>>

\* MainWindow.perform_capture(mode, **kwargs). screen: the image of a full
\* screen or window grab; window: the active window's title; grabFault,
\* saveFault: the capture or the save raises ("db": the catalog write fails,
\* which save_screenshot survives); copyFault: copy_image returns False.
\* raised names the call whose exception reached the except clause.
perform_capture(mode, kwargs, screen, window, grabFault, saveFault, copyFault) ==
    LET cap        == capture(mode, kwargs, window, grabFault)
        captured   == cap.raised = "none"
        image      == IF mode = "region" /\ captured
                      THEN [width |-> kwargs["width"], height |-> kwargs["height"]]
                      ELSE screen
        copy_on    == get("clipboard", "copy_on_capture")
        save_and   == get("clipboard", "save_and_copy")
        saving     == captured /\ should_save(copy_on, save_and)
        saveRaised == saving /\ saveFault = "write"
        copying    == captured /\ ~saveRaised /\ (copy_on \/ save_and)
    IN  /\ cap_ret' = cap
        /\ IF saving
           THEN save_screenshot(image, cap.window_name, mode, saveFault)
           ELSE UNCHANGED storageVars
        /\ clipboard' = IF copying /\ ~copyFault THEN {image} ELSE clipboard
        /\ win_event' = [op |-> "perform_capture", mode |-> mode,
                         raised |-> IF ~captured THEN "capture"
                                    ELSE IF saveRaised THEN "save" ELSE "none",
                         copy_on_capture |-> copy_on, save_and_copy |-> save_and,
                         saved |-> saving /\ ~saveRaised,
                         copy_attempted |-> copying]
        /\ window_shown' = TRUE
        /\ UNCHANGED <<selectorVars, hotkeyVars, configVars, saves>>

\* the single-shot timer emits capture_requested(mode), connected to
\* perform_capture
capture_requested(mode, screen, window, grabFault, saveFault, copyFault) ==
    /\ mode \in pending
    /\ pending' = pending \ {mode}
    /\ perform_capture(mode, << >>, screen, window, grabFault, saveFault, copyFault)

\* MainWindow.on_region_selected(x, y, width, height)
on_region_selected(x, y, width, height, grabFault, saveFault, copyFault) ==
    /\ UNCHANGED pending
    /\ perform_capture("region",
                       [x |-> x, y |-> y, width |-> width, height |-> height],
                       [width |-> 0, height |-> 0], Null,
                       grabFault, saveFault, copyFault)

\* no save under way; MainWindow.__init__ and show()
InitFlow ==
    /\ saves = [t \in Workers |->
                  [pc |-> "idle", image |-> [width |-> 0, height |-> 0],
                   window_name |-> Null, mode |-> "", candidate |-> <<>>,
                   filepath |-> <<>>]]
    /\ window_shown = TRUE
    /\ pending = {}
    /\ clipboard = {}
    /\ win_event = [op |-> "init", mode |-> "", raised |-> "none",
                    copy_on_capture |-> FALSE, save_and_copy |-> FALSE,
                    saved |-> FALSE, copy_attempted |-> FALSE]

\* the application's other components as constructed, on a first run
InitApp == InitCapture /\ InitHotkey /\ InitConfig(ConfigFiles[1]) /\ InitFlow

\* Config.settings as the storage manager reads it
Cfg(pattern, organize, enabled, days) ==
    [ naming_pattern |-> pattern,
      organize_by    |-> organize,
      format         |-> <<"p", "n", "g">>,
      auto_delete    |-> enabled,
      days_to_keep   |-> days ]

\* the configurations (and clock offsets) the model starts from
Installations ==
    { <<Cfg(<<"%S", "_", "{window}">>, "none", FALSE, 1), 0>>,
      <<Cfg(<<"t", "_", "%S">>, "date", TRUE, 1), 0>>,
      <<Cfg(<<"%S", "_", "{window}">>, "application", TRUE, 1), 3600>> }

\* MainWindow.show_region_selector: RegionSelector() and show_fullscreen()
InitSelector ==
    /\ visible = TRUE
    /\ start_point = NoPoint
    /\ end_point = NoPoint
    /\ rubber_band = [geometry |-> NoRect, shown |-> FALSE]
    /\ emitted = << >>
    /\ buttons = {}
    /\ event = Event("show", "none", NoPoint)

\* StorageManager.__init__ on a fresh installation, the region overlay
\* just opened
Init ==
    /\ \E c \in Installations : settings = c[1] /\ tz = c[2]
    /\ now = 0
    /\ files = << >>
    /\ dirs = {BasePath}
    /\ catalog = {}
    /\ seq = 0
    /\ ret = Ret("init", FALSE, Null)
    /\ InitSelector
    /\ InitApp

\* a capture is saved, its window title drawn from ws
SaveOf(ws) == \E image \in Images, w \in ws, m \in Modes,
                 fault \in {"none", "write", "db"} :
                  /\ save_screenshot(image, w, m, fault)
                  /\ UNCHANGED <<selectorVars, appVars>>

\* captures of one window
Save == SaveOf({ <<"a", ".", "b">> })

\* captures with and without a window title
SaveAny == SaveOf(Windows)

List == \E limit \in Limits, term \in Terms, dbFault \in BOOLEAN :
            get_history(limit, 0, term, dbFault)

Delete == \E id \in 1..MaxId, fault \in {"none", "connect", "unlink", "db"} :
            delete_screenshot(id, fault)

Sweep == \E frac \in BOOLEAN, fault \in {"none", "connect", "unlink", "db"} :
            cleanup_old_screenshots(frac, fault)

\* saving, deleting and sweeping
Next == Save \/ Delete \/ Sweep \/ Tick

Spec == Init /\ [][Next]_vars

\* saving and consulting the history
NextHistory == SaveAny \/ List \/ Tick

SpecHistory == Init /\ [][NextHistory]_vars

\* naming patterns a user can type into the settings dialog
Patterns ==
    { <<"%S", "_", "{window}">>, <<"t", "_", "%S">>, <<"{window}">>,
      <<"a", "/", "%S">>, <<"a", "\\", "%S">>, <<"%D", "_", "{window}">> }

\* storage.format
Formats == { <<"p", "n", "g">>, <<"j", "p", "g">> }

\* window titles, some with path separators and blanks
WindowNames == Windows \cup { <<"a", "/", "b">>, <<"\\", "z">>, <<"x", " ">> }

\* a storage manager over any naming pattern and format
InitNaming ==
    /\ \E p \in Patterns, f \in Formats :
          settings = [Cfg(p, "none", FALSE, 1) EXCEPT !.format = f]
    /\ tz = 0
    /\ now = 0
    /\ files = << >>
    /\ dirs = {BasePath}
    /\ catalog = {}
    /\ seq = 0
    /\ ret = Ret("init", FALSE, Null)
    /\ InitSelector
    /\ InitApp

\* StorageManager.generate_filename(window_name)
GenerateFilename ==
    /\ \E w \in WindowNames :
          ret' = Ret("name", FALSE, generate_filename(w, LocalNow))
    /\ UNCHANGED <<settings, tz, now, files, dirs, catalog, seq, selectorVars, appVars>>

\* SettingsDialog: config.set("storage", "naming_pattern", value=...)
SetNamingPattern ==
    /\ \E p \in Patterns : settings' = [settings EXCEPT !.naming_pattern = p]
    /\ UNCHANGED <<tz, now, files, dirs, catalog, seq, ret, selectorVars, appVars>>

\* naming files under changing patterns
NextNaming == GenerateFilename \/ SetNamingPattern \/ Tick

SpecNaming == InitNaming /\ [][NextNaming]_vars

\* captures of regions, direct and through the dispatch
NextCapture == CaptureRegion \/ CaptureDispatch

SpecCapture == Init /\ [][NextCapture]_vars

\* a default installation, the application constructed
InitApplication == Init /\ settings.organize_by = "date"

\* the hotkey table under registrations and unregistrations
NextHotkeyTable == Register \/ Unregister

SpecHotkeyTable == InitApplication /\ [][NextHotkeyTable]_vars

\* the hotkey manager set up, started, stopped and fed key events
NextHotkey == RegisterConfigured \/ Start \/ Stop \/ KeyPress \/ KeyRelease

SpecHotkey == InitApplication /\ [][NextHotkey]_vars

\* two saves whose steps interleave, the clock running
NextInterleaved ==
    \/ \E t \in Workers, image \in Images, w \in Windows, m \in Modes :
          SaveResolve(t, image, w, m)
    \/ \E t \in Workers : SaveWrite(t)
    \/ \E t \in Workers : SaveInsert(t)
    \/ Tick

SpecInterleaved == Init /\ [][NextInterleaved]_vars

\* captures requested from the window, the tray and the hotkeys, regions
\* selected on the overlay, and the clipboard options changed in between
NextFlow ==
    \/ \E mode \in {"fullscreen", "region"} : initiate_capture(mode)
    \/ \E mode \in {"fullscreen"}, screen \in Images, window \in {Null},
          grabFault \in BOOLEAN, saveFault \in {"none", "write"},
          copyFault \in BOOLEAN :
          capture_requested(mode, screen, window, grabFault, saveFault, copyFault)
    \/ \E x \in {10}, width, height \in {6},
          grabFault \in BOOLEAN, saveFault \in {"none", "write"},
          copyFault \in BOOLEAN :
          on_region_selected(x, x, width, height, grabFault, saveFault, copyFault)
    \/ \E key \in DOMAIN SettingValues.clipboard, value \in BOOLEAN :
          set("clipboard", key, value, FALSE)

SpecFlow == InitApplication /\ [][NextFlow]_vars

\* the configuration edited and reset
NextConfig == Set \/ ResetToDefaults

\* the application constructed over any config.json
InitAnyConfig ==
    /\ settings = Cfg(<<"t", "_", "%S">>, "date", TRUE, 1)
    /\ tz = 0
    /\ now = 0
    /\ files = << >>
    /\ dirs = {BasePath}
    /\ catalog = {}
    /\ seq = 0
    /\ ret = Ret("init", FALSE, Null)
    /\ InitSelector
    /\ InitCapture
    /\ InitHotkey
    /\ InitFlow
    /\ \E i \in 1..Len(ConfigFiles) : InitConfig(ConfigFiles[i])

SpecConfig == InitAnyConfig /\ [][NextConfig]_vars

\* one region selection: the events Qt delivers to the overlay
NextRegion == PointerDown \/ PointerMove \/ PointerUp \/ KeyDown

SpecRegion == Init /\ [][NextRegion]_vars

(***************************************************************************)
(* Properties                                                              *)
(***************************************************************************)
Paths(cat) == { r.filepath : r \in cat }

Ids(cat) == { r.id : r \in cat }

\* the filepath the catalog holds for id
PathOf(cat, id) == (CHOOSE r \in cat : r.id = id).filepath

\* every file of fs is still in fs2, with the same content
Kept(fs, fs2) == \A p \in DOMAIN fs : p \in DOMAIN fs2 /\ fs2[p] = fs[p]

\* C1: a save that returns gives a path at which nothing existed when it was
\* called, and leaves every file written earlier in place and unchanged; as
\* no save removes a file, the paths returned by N saves made one after
\* another are pairwise distinct and no save overwrites an earlier one.
C1_SavesNeverCollide ==
    [][ (ret'.op = "save" /\ ~ret'.raised /\ Save) =>
            /\ ret'.val \notin DOMAIN files
            /\ ret'.val \notin dirs'
            /\ ret'.val \in DOMAIN files'
            /\ Kept(files, files') ]_vars

\* C1 witness: the third save of one window in one second has returned
C1_Witness ==
    /\ ret.op = "save" /\ ~ret.raised
    /\ now = 0
    /\ Cardinality(DOMAIN files) = 3
    /\ \A p \in DOMAIN files : PathParent(p) = PathParent(ret.val)

\* <stem>_k<ext> beside the candidate
StemK(candidate, k) ==
    PathParent(candidate) \o <<"/">> \o PathStem(candidate) \o <<"_">>
        \o IntToStr(k) \o PathSuffix(candidate)

\* C2: when the candidate path exists, the save goes to <stem>_k<ext> for
\* the smallest k >= 1 at which nothing exists, the stem being that of the
\* candidate; a free candidate is used as it is; and the row a save adds is
\* the row of the returned path.
C2_SmallestFreeSuffix ==
    [][ \A image \in Images, w \in Windows, m \in Modes, fault \in {"none", "db"} :
          (ret'.op = "save" /\ save_screenshot(image, w, m, fault)) =>
            LET candidate == get_save_path(generate_filename(w, LocalNow), LocalNow)
            IN  /\ IF ~Exists(candidate, files, dirs')
                   THEN ret'.val = candidate
                   ELSE \E k \in 1..(Cardinality(DOMAIN files) + 1) :
                          /\ ret'.val = StemK(candidate, k)
                          /\ ~Exists(StemK(candidate, k), files, dirs')
                          /\ \A j \in 1..(k - 1) :
                                Exists(StemK(candidate, j), files, dirs')
                /\ \A r \in catalog' \ catalog :
                      r.filepath = ret'.val /\ r.filename = PathName(ret'.val)
                /\ (fault = "none" /\ ret'.val \notin Paths(catalog))
                      => Cardinality(catalog' \ catalog) = 1 ]_vars

\* C2 witness: organize mode none, three saves of one window in one second:
\* files base, base_1, base_2 and three rows
C2_Witness ==
    LET base == <<"r", "/", "0", "0", "_", "a", "b">>
        png  == <<".", "p", "n", "g">>
    IN  /\ settings.organize_by = "none"
        /\ DOMAIN files = { base \o png, base \o <<"_", "1">> \o png,
                            base \o <<"_", "2">> \o png }
        /\ Paths(catalog) = DOMAIN files
        /\ Cardinality(catalog) = 3
        /\ \A r \in catalog : r.timestamp = 0
        /\ ret = Ret("save", FALSE, base \o <<"_", "2">> \o png)

\* C3: a save leaves a row only for a file that is on disk, and every file
\* it leaves on disk has its row.
C3_SaveIsOneUnit ==
    [][ (ret'.op = "save" /\ Save) =>
          /\ Paths(catalog' \ catalog) \subseteq DOMAIN files'
          /\ (DOMAIN files' \ DOMAIN files) \subseteq Paths(catalog') ]_vars

\* C4: a catalog record exists if and only if its backing file exists.
C4_RecordIffFile == Paths(catalog) = DOMAIN files

\* C5: no two records share a filepath.
C5_FilepathUnique ==
    \A r1, r2 \in catalog : r1.filepath = r2.filepath => r1 = r2

\* C5 witness: a save went to a path the catalog already held (its file had
\* been removed), after a younger row had been added
C5_Witness ==
    /\ ret.op = "save" /\ ~ret.raised
    /\ \E r \in catalog : r.filepath = ret.val /\ r.id < seq

\* C6: an insert whose filepath the catalog already holds raises nothing,
\* adds no row and leaves every row as it was (sqlite_sequence included).
C6_DuplicateInsertRejected ==
    [][ (ret'.op = "save" /\ ~ret'.raised /\ ret'.val \in Paths(catalog) /\ Save) =>
            /\ catalog' = catalog
            /\ seq' = seq ]_vars

\* C6 witness: a save, a day after the row was written, went to the path of
\* a row whose file had been removed; the row is the old one
C6_Witness ==
    /\ ret.op = "save" /\ ~ret.raised
    /\ \E r \in catalog : r.filepath = ret.val /\ r.timestamp < now

\* the rows of a list
Range(s) == { s[i] : i \in DOMAIN s }

\* C7: get_history without a term returns all records, and of two records
\* the one saved later (the greater id) comes first, also when both were
\* saved in one second.
C7_NewestFirst ==
    [][ \A limit \in Limits :
          (ret'.op = "list" /\ get_history(limit, 0, Null, FALSE)) =>
            /\ \A i, j \in DOMAIN ret'.val :
                  i < j => ret'.val[i].id > ret'.val[j].id
            /\ limit = DefaultLimit => Range(ret'.val) = catalog ]_vars

\* t occurs in s as a literal substring, letter case aside
ContainsNoCase(s, t) ==
    /\ s # Null
    /\ \E i \in 1..(Len(s) - Len(t) + 1) :
          \A k \in 1..Len(t) : Lower(s[i + k - 1]) = Lower(t[k])

\* t occurs literally in filename, window_name, tags or notes
LiteralMatch(r, t) ==
    \/ ContainsNoCase(r.filename, t)
    \/ ContainsNoCase(r.window_name, t)
    \/ ContainsNoCase(r.tags, t)
    \/ ContainsNoCase(r.notes, t)

\* C8: get_history(search_term = S) returns exactly the records (up to
\* limit) in which S occurs as a literal substring, letter case aside, of
\* filename, window_name, tags or notes; an empty list when there is none.
C8_LiteralSearch ==
    [][ \A limit \in Limits, term \in Terms \ {Null} :
          (ret'.op = "list" /\ get_history(limit, 0, term, FALSE)) =>
            LET literal == { r \in catalog : LiteralMatch(r, term) }
            IN  /\ Range(ret'.val) \subseteq literal
                /\ Len(ret'.val) = IF Cardinality(literal) < limit
                                   THEN Cardinality(literal) ELSE limit ]_vars

\* C9: delete(id) of an existing record, nothing failing, returns true and
\* leaves neither the record nor its file; whenever delete returns true the
\* record and the file are gone; and delete(id) of an id without record
\* (as after a first call that returned true) returns false and changes
\* nothing.
C9_DeleteIdempotent ==
    [][ \A id \in 1..(MaxId + 1), fault \in {"none", "connect", "unlink", "db"} :
          (ret'.op = "delete" /\ delete_screenshot(id, fault)) =>
            /\ (id \in Ids(catalog) /\ fault = "none") => ret'.val = TRUE
            /\ (id \in Ids(catalog) /\ ret'.val = TRUE) =>
                  /\ id \notin Ids(catalog')
                  /\ PathOf(catalog, id) \notin DOMAIN files'
            /\ (id \notin Ids(catalog)) =>
                  /\ ret'.val = FALSE /\ ~ret'.raised
                  /\ files' = files /\ catalog' = catalog ]_vars

\* C9 witness: delete has returned true and the catalog and the disk are
\* empty again
C9_Witness ==
    /\ ret = Ret("delete", FALSE, TRUE)
    /\ catalog = {} /\ DOMAIN files = {}
    /\ seq > 0

\* C10: delete(id) leaves every other record and every other file as it
\* was; with the record's file already missing it still removes the record
\* and returns true; for an id without record it returns false, raises
\* nothing and changes nothing.
C10_DeleteOnlyTarget ==
    [][ \A id \in 1..(MaxId + 1), fault \in {"none", "connect", "unlink", "db"} :
          (ret'.op = "delete" /\ delete_screenshot(id, fault)) =>
            /\ { r \in catalog' : r.id # id } = { r \in catalog : r.id # id }
            /\ DOMAIN files' \subseteq DOMAIN files
            /\ \A p \in DOMAIN files :
                  (id \notin Ids(catalog) \/ p # PathOf(catalog, id))
                      => p \in DOMAIN files' /\ files'[p] = files[p]
            /\ ( /\ id \in Ids(catalog)
                 /\ PathOf(catalog, id) \notin DOMAIN files
                 /\ fault = "none" ) =>
                    ret'.val = TRUE /\ id \notin Ids(catalog')
            /\ (id \notin Ids(catalog)) =>
                  /\ ret' = Ret("delete", FALSE, FALSE)
                  /\ files' = files /\ catalog' = catalog ]_vars

\* C10 witness: delete has returned true with other records and other
\* files still there, one record being without its file
C10_Witness ==
    /\ ret = Ret("delete", FALSE, TRUE)
    /\ Cardinality(catalog) = 2
    /\ \E r \in catalog : r.filepath \notin DOMAIN files
    /\ \E r \in catalog : r.filepath \in DOMAIN files

\* C11: an enabled sweep with days_to_keep = D removes exactly the records
\* whose catalog timestamp is strictly older than now - D days, timestamp
\* and cutoff being read on one clock (the catalog's, UTC), and leaves every
\* other record and its file untouched.
C11_SweepExactlyOlder ==
    [][ \A frac \in BOOLEAN :
          ( /\ ret'.op = "sweep"
            /\ settings.auto_delete
            /\ cleanup_old_screenshots(frac, "none") ) =>
            LET cutoff == now - settings.days_to_keep * SecondsPerDay
                older  == { r \in catalog :
                              \/ r.timestamp < cutoff
                              \/ frac /\ r.timestamp = cutoff }
            IN  /\ catalog' = catalog \ older
                /\ \A r \in catalog \ older :
                      r.filepath \in DOMAIN files =>
                          /\ r.filepath \in DOMAIN files'
                          /\ files'[r.filepath] = files[r.filepath] ]_vars

\* C12: a sweep's failure on one file is swallowed: whether a selected
\* record's file is missing or cannot be deleted, the sweep does not raise,
\* removes every selected record's row and commits.
C12_FileFailureSwallowed ==
    [][ \A frac \in BOOLEAN, fault \in {"none", "unlink"} :
          ( /\ ret'.op = "sweep"
            /\ settings.auto_delete
            /\ cleanup_old_screenshots(frac, fault) ) =>
            LET cutoffSec == LocalNow - settings.days_to_keep * SecondsPerDay
            IN  /\ ~ret'.raised
                /\ catalog' = catalog \ OldScreenshots(catalog, cutoffSec, frac) ]_vars

\* C13: the count a sweep reports is the number of records it removed from
\* the catalog, also when some of their files were already missing.
C13_CountIsRecordsRemoved ==
    [][ \A frac \in BOOLEAN :
          ( /\ ret'.op = "sweep"
            /\ settings.auto_delete
            /\ cleanup_old_screenshots(frac, "none") ) =>
            ret'.val = IntToStr(Cardinality(catalog \ catalog')) ]_vars

\* C14: a sweep that cannot open or query the catalog fails hard: the
\* failure reaches the caller instead of the call returning normally.
C14_CatalogFailureSurfaces ==
    [][ \A frac \in BOOLEAN :
          ( /\ ret'.op = "sweep"
            /\ settings.auto_delete
            /\ cleanup_old_screenshots(frac, "connect") ) =>
            ret'.raised ]_vars

\* C15: with auto_delete disabled a sweep removes no record and no file,
\* whatever the records' ages and whatever days_to_keep is.
C15_DisabledSweepChangesNothing ==
    [][ (ret'.op = "sweep" /\ ~settings.auto_delete /\ Sweep) =>
            /\ catalog' = catalog
            /\ files' = files
            /\ dirs' = dirs ]_vars

\* C15 witness: a disabled sweep has returned over a catalog holding a
\* record, with its file, that an enabled sweep would have selected
C15_Witness ==
    /\ ret.op = "sweep"
    /\ ~settings.auto_delete
    /\ \E r \in OldScreenshots(catalog,
                 LocalNow - settings.days_to_keep * SecondsPerDay, TRUE) :
          r.filepath \in DOMAIN files

Min(a, b) == IF a < b THEN a ELSE b

Abs(a) == IF a < 0 THEN 0 - a ELSE a

\* the step delivers the release of the left button
LeftUp == event'.type = "release" /\ event'.arg = "left"

\* C16: the rectangle the selector reports is the bounding box of anchor
\* and release point: left and top are the minima, width and height the
\* absolute coordinate differences, in each of the four drag directions.
C16_BoundingBox ==
    [][ (Len(emitted') > Len(emitted) /\ LeftUp) =>
            LET pos == event'.pos
            IN  emitted'[Len(emitted')] =
                  << Min(start_point[1], pos[1]), Min(start_point[2], pos[2]),
                     Abs(pos[1] - start_point[1]), Abs(pos[2] - start_point[2]) >> ]_vars

\* C17: a pointer-up while dragging ends the selection; it emits the
\* resulting rectangle if and only if its width and its height both exceed
\* MinSize, and otherwise emits nothing.
C17_ThresholdDecides ==
    [][ LeftUp =>
            LET rect == normalized(QRect(start_point, event'.pos))
                big  == RectWidth(rect) > MinSize /\ RectHeight(rect) > MinSize
            IN  /\ ~visible'
                /\ big => Len(emitted') = Len(emitted) + 1
                /\ ~big => emitted' = emitted ]_vars

\* C18: over any sequence of pointer and key events the selector emits at
\* most one rectangle, the overlay is closed once one is emitted, and a
\* closed overlay neither emits nor changes state again.
C18_EmitOnceTerminal ==
    /\ [](Len(emitted) <= 1 /\ (Len(emitted) = 1 => ~visible))
    /\ [][ ~visible => UNCHANGED <<visible, emitted, start_point, end_point>> ]_vars

\* C18 witness: a selection was completed: the overlay is closed and one
\* rectangle was emitted
C18_Witness ==
    /\ ~visible
    /\ Len(emitted) = 1
    /\ event.type = "release"
    /\ buttons = {"right"}

\* C19: a pointer-down at any position, the overlay origin included,
\* records the anchor there with a degenerate rubber band; the moves that
\* follow update the rectangle and the pointer-up ends the selection.
C19_PressStartsDrag ==
    [][ /\ (event'.type = "press" /\ event'.arg = "left") =>
              /\ start_point' = event'.pos
              /\ rubber_band' = [geometry |-> QRect(event'.pos, event'.pos),
                                 shown    |-> TRUE]
        /\ (event'.type = "move" /\ "left" \in buttons) =>
              /\ end_point' = event'.pos
              /\ rubber_band'.geometry =
                     normalized(QRect(start_point, event'.pos))
        /\ LeftUp => ~visible' ]_vars

\* C20: Escape while the overlay is open, before or during a drag, closes
\* it without emitting, and nothing is emitted afterwards.
C20_EscapeCancels ==
    /\ [][ (event'.type = "key" /\ event'.arg = "Escape") =>
              ~visible' /\ emitted' = emitted ]_vars
    /\ [][ (~visible /\ emitted = << >>) => emitted' = << >> ]_vars

\* C20 witness: Escape arrived during a drag: the overlay is closed with
\* the left button still held and nothing emitted
C20_Witness ==
    /\ ~visible
    /\ event = Event("key", "Escape", NoPoint)
    /\ "left" \in buttons
    /\ Truthy(start_point)
    /\ start_point # end_point
    /\ emitted = << >>

\* s ends with suffix
EndsWith(s, suffix) ==
    /\ Len(s) >= Len(suffix)
    /\ SubSeq(s, Len(s) - Len(suffix) + 1, Len(s)) = suffix

\* C21: for every naming pattern and window name generate_filename returns
\* a name that ends in "." plus the configured format and holds neither "/"
\* nor "\", whether from the window name, a literal of the pattern or an
\* expanded date token.
C21_NameHasNoSeparator ==
    ret.op = "name" =>
        /\ EndsWith(ret.val, <<".">> \o settings.format)
        /\ \A i \in 1..Len(ret.val) : ret.val[i] \notin {"/", "\\"}

\* C22: record ids are unique and grow in insertion order, and through any
\* sequence of inserts, rejected duplicate inserts, deletes and sweeps a new
\* record's id is greater than every id assigned before (the catalog's
\* sequence), so no id is used twice.
C22_IdsNeverReused ==
    /\ [](\A r1, r2 \in catalog :
            /\ r1.id \in 1..seq
            /\ r1.id = r2.id => r1 = r2
            /\ r1.id < r2.id => r1.timestamp <= r2.timestamp)
    /\ [][ /\ seq' >= seq
           /\ \A r \in catalog' \ catalog : r.id > seq /\ r.id = seq' ]_vars

\* C22 witness: a record was inserted after every earlier record, the one
\* with the highest id included, had been deleted or swept
C22_Witness ==
    /\ ret.op = "save"
    /\ seq >= 2
    /\ \E r \in catalog : catalog = {r} /\ r.id = seq /\ r.filepath = ret.val

\* C23: capture_region raises ValueError without grabbing the screen
\* whenever width <= 0 or height <= 0, and the dispatch in REGION mode
\* raises ValueError when any of x, y, width, height is missing.
C23_InvalidRegionRaises ==
    /\ ( /\ cap_ret.op = "capture_region"
         /\ (cap_ret.args["width"] <= 0 \/ cap_ret.args["height"] <= 0) ) =>
            cap_ret.raised = "ValueError" /\ ~cap_ret.grabbed
    /\ ( /\ cap_ret.op = "capture"
         /\ {"x", "y", "width", "height"} \ DOMAIN cap_ret.args # {} ) =>
            cap_ret.raised = "ValueError" /\ ~cap_ret.grabbed

\* C23 witness: capture_region was called with width 0 and a valid height
C23_Witness ==
    /\ cap_ret.op = "capture_region"
    /\ cap_ret.args["width"] = 0
    /\ cap_ret.args["height"] = 6
    /\ cap_ret.raised = "ValueError"

\* the table without one combination
Without(table, keys) == [c \in DOMAIN table \ {keys} |-> table[c]]

\* what one register or unregister call did to the table it found
C24_CallEffect ==
    LET keys == parse_hotkey_string(hk_event.arg)
    IN  /\ hk_event.op = "register" =>
              /\ hk_event.ret = "True"
              /\ DOMAIN hotkeys = DOMAIN hk_event.before \cup {keys}
              /\ Cardinality(DOMAIN hotkeys) =
                    Cardinality(DOMAIN hk_event.before)
                      + (IF keys \in DOMAIN hk_event.before THEN 0 ELSE 1)
              /\ hotkeys[keys] = hk_event.cb
              /\ Without(hotkeys, keys) = Without(hk_event.before, keys)
        /\ (hk_event.op = "unregister" /\ keys \notin DOMAIN hk_event.before) =>
              /\ hk_event.ret = "False"
              /\ hotkeys = hk_event.before

\* an unregister call that follows a register call of the same string
C24_UnregisterAfterRegister ==
    /\ hk_event.op = "register"
    /\ hk_event'.op = "unregister"
    /\ hk_event'.arg = hk_event.arg

C25_Lifecycle ==
    /\ [](/\ threads \in {0, 1}
          /\ is_running <=> threads = 1
          /\ ~is_running => current_keys = {}
          /\ (hk_event.op = "start" /\ hk_event.ret = "None") => is_running
          /\ (hk_event.op = "stop" /\ hk_event.ret = "None") =>
                /\ ~is_running
                /\ current_keys = {}
                /\ hk_event.arg = "running" => ~listener)
    /\ [][/\ (hk_event'.op = "start" /\ is_running) =>
               UNCHANGED <<listener, threads, is_running, current_keys, hotkeys>>
          /\ (hk_event'.op = "stop" /\ ~is_running) =>
               UNCHANGED <<listener, threads, is_running, current_keys, hotkeys>>
          /\ (hk_event'.op = "start" /\ ~is_running /\ is_running') =>
               current_keys' = {}]_vars

\* a stop that found keys held and left none
C25_Witness ==
    /\ hk_event.op = "stop"
    /\ hk_event.ret = "None"
    /\ hk_event.held # {}
    /\ current_keys = {}
    /\ ~is_running

\* C28: callbacks are started only by a key press after which the held
\* keys are exactly a registered combination, and then only that
\* combination's callback; a release starts none
C28_ExactCombinationFires ==
    /\ hk_event.fired # {} =>
          /\ hk_event.op = "press"
          /\ current_keys \in DOMAIN hotkeys
          /\ hk_event.fired = {hotkeys[current_keys]}
    /\ hk_event.op = "release" => hk_event.fired = {}
    /\ (hk_event.op = "press" /\ current_keys \notin DOMAIN hotkeys) =>
          hk_event.fired = {}

\* a press that completed a two-key combination and started its callback
C28_Witness ==
    /\ hk_event.op = "press"
    /\ hk_event.fired # {}
    /\ Cardinality(current_keys) = 2

\* C26: after reset_to_defaults every setting read through get has its
\* original default value
C26_ResetRestoresDefaults ==
    cfg_event.op = "reset" =>
        \A sec \in DOMAIN OriginalDefaults :
          \A key \in DOMAIN OriginalDefaults[sec] :
            get(sec, key) = OriginalDefaults[sec][key]

C29_EmittedRegionAccepted ==
    \A i \in 1..Len(emitted) :
       LET e      == emitted[i]
           kwargs == [x |-> e[1], y |-> e[2], width |-> e[3], height |-> e[4]]
       IN  /\ e[3] > MinSize
           /\ e[4] > MinSize
           /\ ~RegionInvalid(e[3], e[4])
           /\ ~MissingRegionArg(kwargs)
           /\ \A grabFault \in BOOLEAN :
                 capture("region", kwargs, Null, grabFault).raised # "ValueError"

\* a rectangle has been emitted and its capture grabs the screen
C29_Witness ==
    /\ Len(emitted) = 1
    /\ ~visible
    /\ LET e == emitted[1]
       IN  capture("region",
                   [x |-> e[1], y |-> e[2], width |-> e[3], height |-> e[4]],
                   Null, FALSE).grabbed

====
